---- MODULE Spec2Model ----
(***************************************************************************)
(* Model of the traversal engine of noisy.py (class Crawler).              *)
(*                                                                         *)
(* Strings (URLs) are finite sequences of characters, characters are small *)
(* integers; "x in y" on Python strings is contiguous-subsequence search.  *)
(* A page body is represented by the list of results _normalize_link gives *)
(* for the hrefs the pattern of _extract_urls finds in it, in page order.  *)
(* The control position of the single thread of crawl() is pc.             *)
(***************************************************************************)
EXTENDS Integers, Sequences, FiniteSets, TLC

\* ---------------------------------------------------------------- bounds
MaxBody == 2        \* most hrefs on one page
MaxDepthCfg == 2    \* largest configured max_depth
MaxTime == 3        \* the clock is observed up to this many seconds

\* ------------------------------------------------------------ URL strings
\* the URL strings that occur in pages and configurations
Strs == { <<1>>, <<1, 2>>, <<2>> }

\* validators.url: a pure predicate on strings; here: the string starts
\* with the scheme character 1
urlValidator(url) == Len(url) >= 1 /\ url[1] = 1

\* Python: small in big (str.__contains__)
IsSubstring(small, big) ==
    \E i \in 0..(Len(big) - Len(small)) :
        \A k \in 1..Len(small) : big[i + k] = small[k]

\* Python: x in list
InList(x, list) == \E i \in 1..Len(list) : list[i] = x

\* Python: list.index(x), for x in list
Index(list, x) == CHOOSE i \in 1..Len(list) :
                      list[i] = x /\ \A j \in 1..(i - 1) : list[j] # x

\* Python: del list[i]
DelAt(list, i) == SubSeq(list, 1, i - 1) \o SubSeq(list, i + 1, Len(list))

\* results of _normalize_link: None, or a string (possibly empty)
None == [none |-> TRUE, str |-> <<>>]
Str(s) == [none |-> FALSE, str |-> s]
NormResults == {None} \cup {Str(s) : s \in Strs \cup {<<>>}}

RECURSIVE SeqsUpTo(_, _)
SeqsUpTo(S, n) ==
    IF n = 0 THEN {<<>>}
    ELSE LET shorter == SeqsUpTo(S, n - 1)
         IN  shorter \cup {Append(s, x) : s \in {t \in shorter : Len(t) = n - 1}, x \in S}

\* the page bodies a fetch can return
Bodies == SeqsUpTo(NormResults, MaxBody)

\* ------------------------------------------------------------------ state
VARIABLES
    pc,           \* control position of crawl()
    config,       \* self._config
    links,        \* self._links
    start_time,   \* self._start_time (-1: None)
    now,          \* datetime.datetime.now(), in seconds
    url,          \* crawl: the seed chosen at line 235
    depth,        \* _browse_from_links: the depth parameter of the current call
    random_link,  \* _browse_from_links: the link chosen at line 154
    sub_links,    \* _browse_from_links: the links extracted at line 163
    exc,          \* the exception being handled, or the one that left crawl()
    logged,       \* reason logged at line 257, "none" if none
    step          \* the last step the program took

vars == <<pc, config, links, start_time, now, url, depth, random_link,
          sub_links, exc, logged, step>>

SIGINT == "SIGINT received."
TIMEOUT == "Timeout reached."

\* main(): timeout is False (argparse default) or a number of seconds
TimeoutFalse == [is_false |-> TRUE, seconds |-> 0]
TimeoutOf(s) == [is_false |-> FALSE, seconds |-> s]

NoUrl == <<>>

\* configured sleep bounds and timeouts, in seconds
SleepValues == {1, 2}
TimeoutValues == {1, 2}

Configs ==
    [ root_urls        : { << <<1, 2>> >>, << <<1>>, <<1, 2>> >> },
      blacklisted_urls : { <<>>, << <<2>> >> },
      max_depth        : 0..MaxDepthCfg,
      min_sleep        : SleepValues,
      max_sleep        : SleepValues,
      timeout          : {TimeoutFalse} \cup {TimeoutOf(s) : s \in TimeoutValues} ]

\* Crawler.__init__ followed by load_config_file / set_option in main()
Init ==
    /\ pc = "Idle"
    /\ config \in {c \in Configs : c.min_sleep <= c.max_sleep}
    /\ links = <<>>
    /\ start_time = -1
    /\ now = 0
    /\ url = NoUrl
    /\ depth = 0
    /\ random_link = NoUrl
    /\ sub_links = <<>>
    /\ exc = "none"
    /\ logged = "none"
    /\ step = "init"

\* -------------------------------------------------------- pure functions
\* mutant: the blacklist is matched by equality instead of containment
IsBlacklisted_Exact(cfg, u) ==
    \E i \in 1..Len(cfg.blacklisted_urls) : cfg.blacklisted_urls[i] = u

\* _is_blacklisted (the UnicodeDecodeError branch cannot be taken on str)
IsBlacklisted(cfg, u) ==
    \E i \in 1..Len(cfg.blacklisted_urls) : IsSubstring(cfg.blacklisted_urls[i], u)

\* mutant: the validity test is missing
ShouldAcceptUrl_NoValidator(cfg, r) ==
    /\ ~r.none
    /\ r.str # <<>>
    /\ ~IsBlacklisted(cfg, r.str)

\* _should_accept_url, on a result of _normalize_link
ShouldAcceptUrl(cfg, r) ==
    /\ ~r.none
    /\ r.str # <<>>
    /\ urlValidator(r.str)
    /\ ~IsBlacklisted(cfg, r.str)

\* _extract_urls: filter the normalized links of the body
ExtractUrls(cfg, body) ==
    LET kept == SelectSeq(body, LAMBDA r : ShouldAcceptUrl(cfg, r))
    IN  [i \in 1..Len(kept) |-> kept[i].str]

\* mutant: the blacklist is assigned instead of appended to
RemoveAndBlacklist_Assign(ls, bl, link) ==
    IF ~InList(link, ls)
    THEN [links |-> ls, blacklisted_urls |-> bl]
    ELSE [links |-> DelAt(ls, Index(ls, link)),
          blacklisted_urls |-> <<link>>]

\* mutant: the membership test of line 130 is missing
RemoveAndBlacklist_Unguarded(ls, bl, link) ==
    [links |-> IF InList(link, ls) THEN DelAt(ls, Index(ls, link)) ELSE ls,
     blacklisted_urls |-> Append(bl, link)]

\* mutant: the link is blacklisted but stays in the list
RemoveAndBlacklist_NoDel(ls, bl, link) ==
    IF ~InList(link, ls)
    THEN [links |-> ls, blacklisted_urls |-> bl]
    ELSE [links |-> ls, blacklisted_urls |-> Append(bl, link)]

\* mutant: every occurrence of the link is deleted
RemoveAndBlacklist_All(ls, bl, link) ==
    IF ~InList(link, ls)
    THEN [links |-> ls, blacklisted_urls |-> bl]
    ELSE [links |-> SelectSeq(ls, LAMBDA x : x # link),
          blacklisted_urls |-> Append(bl, link)]

\* _remove_and_blacklist: the new (links, blacklisted_urls)
RemoveAndBlacklist(ls, bl, link) ==
    IF ~InList(link, ls)
    THEN [links |-> ls, blacklisted_urls |-> bl]
    ELSE [links |-> DelAt(ls, Index(ls, link)),
          blacklisted_urls |-> Append(bl, link)]

\* mutant: the end time itself does not count as reached
IsTimeoutReached_Strict(cfg, start, t) ==
    LET is_timeout_set == ~cfg.timeout.is_false
        end_time == start + cfg.timeout.seconds
        is_timed_out == t > end_time
    IN  is_timeout_set /\ is_timed_out

\* _is_timeout_reached
IsTimeoutReached(cfg, start, t) ==
    LET is_timeout_set == ~cfg.timeout.is_false
        end_time == start + cfg.timeout.seconds
        is_timed_out == t >= end_time
    IN  is_timeout_set /\ is_timed_out

\* mutant: off by one in the depth test
IsDepthReached_Off(cfg, d) == d > cfg.max_depth

\* _browse_from_links, line 144
IsDepthReached(cfg, d) == d >= cfg.max_depth

\* ---------------------------------------------------------------- actions
\* exceptions a fetch can raise: requests.exceptions.RequestException,
\* UnicodeDecodeError, MemoryError, LocationParseError, any other Exception
FetchErrors == {"transport", "decode", "memory", "parse", "other"}

\* crawl, line 232
CrawlStart ==
    /\ pc = "Idle"
    /\ start_time' = now
    /\ pc' = "RootSelect"
    /\ step' = "CrawlStart"
    /\ UNCHANGED <<config, links, now, url, depth, random_link, sub_links,
                   exc, logged>>

\* crawl, line 235 (outside the try block)
RootSelect ==
    /\ pc = "RootSelect"
    /\ \E i \in 1..Len(config.root_urls) : url' = config.root_urls[i]
    /\ pc' = "FetchRoot"
    /\ step' = "RootSelect"
    /\ UNCHANGED <<config, links, start_time, now, depth, random_link,
                   sub_links, exc, logged>>

\* mutant: the walk goes on from the depth the cycle before ended with
FetchRootOk_NoReset(body) ==
    /\ pc = "FetchRoot"
    /\ links' = ExtractUrls(config, body)
    /\ pc' = "Explore"
    /\ step' = "FetchRootOk"
    /\ UNCHANGED <<config, start_time, now, url, depth, random_link, sub_links,
                   exc, logged>>

\* crawl, lines 237-240: the fetch returns a body; _browse_from_links() is
\* entered with the default depth 0
FetchRootOk(body) ==
    /\ pc = "FetchRoot"
    /\ links' = ExtractUrls(config, body)
    /\ depth' = 0
    /\ pc' = "Explore"
    /\ step' = "FetchRootOk"
    /\ UNCHANGED <<config, start_time, now, url, random_link, sub_links, exc, logged>>

\* crawl, lines 237-238: the fetch or the extraction raises
FetchRootRaise(e) ==
    /\ pc = "FetchRoot"
    /\ exc' = e
    /\ pc' = "CrawlExcept"
    /\ step' = "FetchRootRaise"
    /\ UNCHANGED <<config, links, start_time, now, url, depth, random_link,
                   sub_links, logged>>

\* _browse_from_links, lines 144-149: dead end, every frame returns and the
\* loop of crawl goes on
DeadEnd ==
    /\ pc = "Explore"
    /\ (Len(links) = 0 \/ IsDepthReached(config, depth))
    /\ pc' = "RootSelect"
    /\ step' = "DeadEnd"
    /\ random_link' = NoUrl
    /\ sub_links' = <<>>
    /\ UNCHANGED <<config, links, start_time, now, url, depth, exc, logged>>

\* _browse_from_links, lines 151-152, caught at lines 256-258
TimedOut ==
    /\ pc = "Explore"
    /\ ~(Len(links) = 0 \/ IsDepthReached(config, depth))
    /\ IsTimeoutReached(config, start_time, now)
    /\ logged' = TIMEOUT
    /\ pc' = "Returned"
    /\ step' = "TimedOut"
    /\ UNCHANGED <<config, links, start_time, now, url, depth, random_link,
                   sub_links, exc>>

\* mutant: the timeout is not checked before the link is chosen
PickLink_NoCheck ==
    /\ pc = "Explore"
    /\ ~(Len(links) = 0 \/ IsDepthReached(config, depth))
    /\ \E i \in 1..Len(links) : random_link' = links[i]
    /\ pc' = "Sleep"
    /\ step' = "PickLink"
    /\ sub_links' = <<>>
    /\ UNCHANGED <<config, links, start_time, now, url, depth, exc, logged>>

\* _browse_from_links, lines 144-154: random.choice(self._links)
PickLink ==
    /\ pc = "Explore"
    /\ ~(Len(links) = 0 \/ IsDepthReached(config, depth))
    /\ ~IsTimeoutReached(config, start_time, now)
    /\ \E i \in 1..Len(links) : random_link' = links[i]
    /\ pc' = "Sleep"
    /\ step' = "PickLink"
    /\ sub_links' = <<>>
    /\ UNCHANGED <<config, links, start_time, now, url, depth, exc, logged>>

\* random.randrange(a, b): the values it can return; none: ValueError
Randrange(a, b) == {d \in a..(b - 1) : TRUE}

Min(a, b) == IF a <= b THEN a ELSE b

\* _browse_from_links, lines 157-158
Sleep ==
    /\ pc = "Sleep"
    /\ Randrange(config.min_sleep, config.max_sleep) # {}
    /\ \E d \in Randrange(config.min_sleep, config.max_sleep) :
           now' = Min(now + d, MaxTime)
    /\ pc' = "FetchSub"
    /\ step' = "Sleep"
    /\ UNCHANGED <<config, links, start_time, url, depth, random_link,
                   sub_links, exc, logged>>

\* _browse_from_links, line 157: randrange raises ValueError on an empty
\* range; it is no RequestException, so it reaches line 260 of crawl
SleepRaise ==
    /\ pc = "Sleep"
    /\ Randrange(config.min_sleep, config.max_sleep) = {}
    /\ exc' = "other"
    /\ pc' = "CrawlExcept"
    /\ step' = "SleepRaise"
    /\ UNCHANGED <<config, links, start_time, now, url, depth, random_link,
                   sub_links, logged>>

\* mutant: the recursive call passes the depth on unchanged
FetchSubOk_SameDepth(body) ==
    /\ pc = "FetchSub"
    /\ LET extracted == ExtractUrls(config, body)
           rb == RemoveAndBlacklist(links, config.blacklisted_urls, random_link)
       IN  /\ sub_links' = extracted
           /\ IF Len(extracted) > 1
              THEN /\ links' = ExtractUrls(config, body)
                   /\ UNCHANGED config
              ELSE /\ links' = rb.links
                   /\ config' = [config EXCEPT !.blacklisted_urls = rb.blacklisted_urls]
    /\ pc' = "Explore"
    /\ step' = "FetchSubOk"
    /\ UNCHANGED <<start_time, now, url, depth, random_link, exc, logged>>

\* mutant: the new links are merged into the list instead of replacing it
FetchSubOk_Merge(body) ==
    /\ pc = "FetchSub"
    /\ LET extracted == ExtractUrls(config, body)
           rb == RemoveAndBlacklist(links, config.blacklisted_urls, random_link)
       IN  /\ sub_links' = extracted
           /\ IF Len(extracted) > 1
              THEN /\ links' = links \o extracted
                   /\ UNCHANGED config
              ELSE /\ links' = rb.links
                   /\ config' = [config EXCEPT !.blacklisted_urls = rb.blacklisted_urls]
    /\ depth' = depth + 1
    /\ pc' = "Explore"
    /\ step' = "FetchSubOk"
    /\ UNCHANGED <<start_time, now, url, random_link, exc, logged>>

\* _browse_from_links, lines 160-172 and 179: the fetch returns a body
FetchSubOk(body) ==
    /\ pc = "FetchSub"
    /\ LET extracted == ExtractUrls(config, body)
           rb == RemoveAndBlacklist(links, config.blacklisted_urls, random_link)
       IN  /\ sub_links' = extracted
           /\ IF Len(extracted) > 1
              THEN /\ links' = ExtractUrls(config, body)
                   /\ UNCHANGED config
              ELSE /\ links' = rb.links
                   /\ config' = [config EXCEPT !.blacklisted_urls = rb.blacklisted_urls]
    /\ depth' = depth + 1
    /\ pc' = "Explore"
    /\ step' = "FetchSubOk"
    /\ UNCHANGED <<start_time, now, url, random_link, exc, logged>>

\* mutant: no handler in _browse_from_links, every exception reaches crawl
FetchSubRaise_Propagate(e) ==
    /\ pc = "FetchSub"
    /\ exc' = e
    /\ pc' = "CrawlExcept"
    /\ step' = "FetchSubRaise"
    /\ UNCHANGED <<config, links, start_time, now, url, depth, random_link,
                   sub_links, logged>>

\* _browse_from_links, lines 162-163: the fetch or the extraction raises;
\* lines 174 catches RequestException and UnicodeDecodeError, the others
\* leave _browse_from_links and reach the handlers of crawl
FetchSubRaise(e) ==
    /\ pc = "FetchSub"
    /\ exc' = e
    /\ pc' = IF e \in {"transport", "decode"} THEN "BrowseExcept" ELSE "CrawlExcept"
    /\ step' = "FetchSubRaise"
    /\ UNCHANGED <<config, links, start_time, now, url, depth, random_link,
                   sub_links, logged>>

\* _browse_from_links, lines 174-179
BrowseExcept ==
    /\ pc = "BrowseExcept"
    /\ LET rb == RemoveAndBlacklist(links, config.blacklisted_urls, random_link)
       IN  /\ links' = rb.links
           /\ config' = [config EXCEPT !.blacklisted_urls = rb.blacklisted_urls]
    /\ depth' = depth + 1
    /\ exc' = "none"
    /\ pc' = "Explore"
    /\ step' = "BrowseExcept"
    /\ UNCHANGED <<start_time, now, url, random_link, sub_links, logged>>

\* crawl, lines 242-244
CrawlExceptDecode ==
    /\ pc = "CrawlExcept"
    /\ exc = "decode"
    /\ LET rb == RemoveAndBlacklist(links, config.blacklisted_urls, url)
       IN  /\ links' = rb.links
           /\ config' = [config EXCEPT !.blacklisted_urls = rb.blacklisted_urls]
    /\ exc' = "none"
    /\ pc' = "RootSelect"
    /\ step' = "CrawlExceptDecode"
    /\ UNCHANGED <<start_time, now, url, depth, random_link, sub_links, logged>>

\* mutant: the handlers of lines 246-254 blacklist the seed as line 244 does
CrawlExceptLogged_Blacklists ==
    /\ pc = "CrawlExcept"
    /\ exc \in {"transport", "memory", "parse"}
    /\ config' = [config EXCEPT !.blacklisted_urls = Append(@, url)]
    /\ exc' = "none"
    /\ pc' = "RootSelect"
    /\ step' = "CrawlExceptLogged"
    /\ UNCHANGED <<links, start_time, now, url, depth, random_link,
                   sub_links, logged>>

\* crawl, lines 246-254: RequestException, MemoryError, LocationParseError
CrawlExceptLogged ==
    /\ pc = "CrawlExcept"
    /\ exc \in {"transport", "memory", "parse"}
    /\ exc' = "none"
    /\ pc' = "RootSelect"
    /\ step' = "CrawlExceptLogged"
    /\ UNCHANGED <<config, links, start_time, now, url, depth, random_link,
                   sub_links, logged>>

\* crawl, lines 260-262: logged and raised again, crawl is left
CrawlExceptFatal ==
    /\ pc = "CrawlExcept"
    /\ exc = "other"
    /\ pc' = "Crashed"
    /\ step' = "CrawlExceptFatal"
    /\ UNCHANGED <<config, links, start_time, now, url, depth, random_link,
                   sub_links, exc, logged>>

\* positions of crawl() while it runs, and those inside its try block
Running == {"RootSelect", "FetchRoot", "Explore", "Sleep", "FetchSub",
            "BrowseExcept", "CrawlExcept"}
InTry == {"FetchRoot", "Explore", "Sleep", "FetchSub", "BrowseExcept"}

\* _signal_sigint_handler, lines 40-42: SIGINT raises LifecycleManagement at
\* the current position; inside the try block of crawl lines 256-258 catch
\* it, elsewhere no handler is in scope and it leaves crawl
Interrupt ==
    /\ pc \in Running
    /\ IF pc \in InTry
       THEN /\ logged' = SIGINT
            /\ pc' = "Returned"
            /\ UNCHANGED exc
       ELSE /\ exc' = "lifecycle"
            /\ pc' = "Crashed"
            /\ UNCHANGED logged
    /\ step' = "Interrupt"
    /\ UNCHANGED <<config, links, start_time, now, url, depth, random_link,
                   sub_links>>

\* the clock advances while the program runs
Tick ==
    /\ pc \in Running
    /\ now < MaxTime
    /\ now' = now + 1
    /\ UNCHANGED <<pc, config, links, start_time, url, depth, random_link,
                   sub_links, exc, logged, step>>

FetchRoot ==
    \/ \E body \in Bodies : FetchRootOk(body)
    \/ \E e \in FetchErrors : FetchRootRaise(e)

FetchSub ==
    \/ \E body \in Bodies : FetchSubOk(body)
    \/ \E e \in FetchErrors : FetchSubRaise(e)

Next ==
    \/ CrawlStart
    \/ RootSelect
    \/ FetchRoot
    \/ DeadEnd
    \/ TimedOut
    \/ PickLink
    \/ Sleep
    \/ SleepRaise
    \/ FetchSub
    \/ BrowseExcept
    \/ CrawlExceptDecode
    \/ CrawlExceptLogged
    \/ CrawlExceptFatal
    \/ Interrupt
    \/ Tick

Spec == Init /\ [][Next]_vars

\* ------------------------------------------------- the run without faults
\* The same program when no SIGINT is delivered, every fetch ends with one
\* of the results of the fetcher's contract (a body, a RequestException, a
\* UnicodeDecodeError), the sleep range is not empty and a timeout is set.
\* The thread always takes its next step and the clock advances.
InitFair ==
    /\ Init
    /\ ~config.timeout.is_false
    /\ config.min_sleep < config.max_sleep

ContractErrors == {"transport", "decode"}

FetchRootFair ==
    \/ \E body \in Bodies : FetchRootOk(body)
    \/ \E e \in ContractErrors : FetchRootRaise(e)

FetchSubFair ==
    \/ \E body \in Bodies : FetchSubOk(body)
    \/ \E e \in ContractErrors : FetchSubRaise(e)

EngineStep ==
    \/ CrawlStart
    \/ RootSelect
    \/ FetchRootFair
    \/ DeadEnd
    \/ TimedOut
    \/ PickLink
    \/ Sleep
    \/ FetchSubFair
    \/ BrowseExcept
    \/ CrawlExceptDecode
    \/ CrawlExceptLogged

NextFair == EngineStep \/ Tick

FairSpec ==
    /\ InitFair
    /\ [][NextFair]_vars
    /\ WF_vars(EngineStep)
    /\ WF_vars(Tick)

\* ------------------------------------------- the thread keeps running
\* Every run of the program, SIGINT and every exception included, in which
\* the thread of crawl takes its next step whenever it has one (each fetch
\* and each sleep ends).
ThreadStep ==
    \/ CrawlStart
    \/ RootSelect
    \/ FetchRoot
    \/ DeadEnd
    \/ TimedOut
    \/ PickLink
    \/ Sleep
    \/ SleepRaise
    \/ FetchSub
    \/ BrowseExcept
    \/ CrawlExceptDecode
    \/ CrawlExceptLogged
    \/ CrawlExceptFatal

NextRun == ThreadStep \/ Interrupt \/ Tick

RunSpec == Init /\ [][NextRun]_vars /\ WF_vars(ThreadStep)

\* ------------------------------------------------------------ properties
blacklist == config.blacklisted_urls

Last(list) == list[Len(list)]

\* the list with one occurrence of x deleted
IsListWithout(after, list, x) ==
    \E i \in 1..Len(list) : list[i] = x /\ after = DelAt(list, i)

\* C1: the depth with which _browse_from_links is entered never exceeds
\* max_depth, and no link is selected, slept for or fetched in a call
\* entered with depth >= max_depth.
C1_DepthNeverExceedsMax ==
    /\ depth <= config.max_depth
    /\ pc \in {"Sleep", "FetchSub", "BrowseExcept"} => depth < config.max_depth

\* a call entered with depth = max_depth > 0 and links left to visit
C1_Witness ==
    /\ pc = "Explore"
    /\ depth = config.max_depth
    /\ depth > 0
    /\ Len(links) > 0

\* C2 (as claimed): with a timeout configured, when every fetch and sleep
\* returns and the clock advances, crawl eventually returns with the timeout
\* reason.
C2_Original ==
    ~config.timeout.is_false => <>(pc = "Returned" /\ logged = TIMEOUT)

\* C3 (as claimed): a SIGINT delivered in any position of the running crawl
\* is caught by crawl, its reason is logged and crawl returns normally.
C3_Original ==
    step = "Interrupt" => (pc = "Returned" /\ logged = SIGINT)

\* C4: the blacklist only grows: every step keeps the entries it had, in
\* place, and never makes it shorter.
C4_BlacklistOnlyGrows ==
    [][/\ Len(blacklist') >= Len(blacklist)
       /\ SubSeq(blacklist', 1, Len(blacklist)) = blacklist]_vars

\* the blacklist has grown by two links during the run
C4_Witness ==
    /\ step \in {"FetchSubOk", "BrowseExcept", "CrawlExceptDecode"}
    /\ Len(blacklist) >= 3

\* C5 (as claimed): on every reachable list of links and blacklist, and
\* for every link, _remove_and_blacklist twice gives the state that
\* _remove_and_blacklist once gives.
C5_Original ==
    \A link \in Strs :
        LET once == RemoveAndBlacklist(links, blacklist, link)
            twice == RemoveAndBlacklist(once.links, once.blacklisted_urls, link)
        IN  twice = once

\* C6 (as claimed): after a seed fetch failed with a decode error the seed
\* is in the blacklist and crawl selects a seed again.
C6_Original ==
    step = "CrawlExceptDecode" => (InList(url, blacklist) /\ pc = "RootSelect")

C8_FrontierReplaced ==
    [][(pc = "FetchSub" /\ step' = "FetchSubOk" /\ Len(sub_links') > 1) =>
        /\ links' = sub_links'
        /\ blacklist' = blacklist
        /\ depth' = depth + 1
        /\ pc' = "Explore"]_vars

\* the list was replaced and the visited link is no longer in it
C8_Witness ==
    /\ step = "FetchSubOk"
    /\ pc = "Explore"
    /\ Len(sub_links) > 1
    /\ links = sub_links
    /\ ~InList(random_link, links)
    /\ ~InList(random_link, blacklist)

\* C9: when the fetch of the chosen link returns at most one accepted
\* link, one occurrence of the chosen link is deleted from the list of
\* links, nothing is added to it, the link is appended to the blacklist and
\* _browse_from_links goes on with depth + 1; a call that finds the list
\* empty selects no link and raises no timeout.
C9_DeadLinkRemoved ==
    [][/\ (pc = "FetchSub" /\ step' = "FetchSubOk" /\ Len(sub_links') <= 1) =>
            /\ IsListWithout(links', links, random_link)
            /\ blacklist' = Append(blacklist, random_link)
            /\ depth' = depth + 1
            /\ pc' = "Explore"
            /\ (links = <<random_link>> => links' = <<>>)
       /\ (pc = "Explore" /\ links = <<>>) =>
            (pc' # "Sleep" /\ step' # "TimedOut"
               /\ (pc' = "Explore" \/ pc' = "RootSelect" \/ step' = "Interrupt"))]_vars

\* the only link was visited, returned one link, and the list is empty
C9_Witness ==
    /\ step = "FetchSubOk"
    /\ pc = "Explore"
    /\ Len(sub_links) = 1
    /\ links = <<>>
    /\ Len(blacklist) > 0
    /\ Last(blacklist) = random_link

\* C10: a RequestException or UnicodeDecodeError on the chosen link is
\* handled in _browse_from_links: crawl neither ends nor selects a seed; one
\* occurrence of the link is deleted from the list of links, the link is
\* appended to the blacklist and _browse_from_links goes on with depth + 1.
C10_SubFetchFailureRecovered ==
    [][/\ (pc = "FetchSub" /\ step' = "FetchSubRaise" /\ exc' \in ContractErrors) =>
            /\ pc' = "BrowseExcept"
            /\ links' = links
            /\ blacklist' = blacklist
       /\ (pc = "BrowseExcept" /\ step' = "BrowseExcept") =>
            /\ IsListWithout(links', links, random_link)
            /\ blacklist' = Append(blacklist, random_link)
            /\ depth' = depth + 1
            /\ pc' = "Explore"]_vars

\* the handler has run and the walk goes on one level deeper
C10_Witness ==
    /\ step = "BrowseExcept"
    /\ pc = "Explore"
    /\ depth >= 1
    /\ Len(blacklist) > 0
    /\ Last(blacklist) = random_link
    /\ ~InList(random_link, links)

\* C11 (as claimed): a link that _remove_and_blacklist has put on the
\* blacklist is never chosen again by _browse_from_links.
C11_Original ==
    [][(pc = "Explore" /\ step' = "PickLink") => ~InList(random_link', blacklist)]_vars

\* C12: every link that is in the list of links after a step is non-empty
\* and valid, and either was in the list before the step or is accepted by
\* the filter with the blacklist of that moment.
C12_FrontierPassedFilter ==
    [][\A i \in 1..Len(links') :
          /\ links'[i] # <<>>
          /\ urlValidator(links'[i])
          /\ \/ InList(links'[i], links)
             \/ /\ step' \in {"FetchRootOk", "FetchSubOk"}
                /\ ~(\E j \in 1..Len(blacklist) :
                        IsSubstring(blacklist[j], links'[i]))]_vars

\* a seed page gave two links while the blacklist was not empty
C12_Witness ==
    /\ step = "FetchRootOk"
    /\ pc = "Explore"
    /\ Len(links) >= 2
    /\ Len(blacklist) >= 1

\* C13: for every start time T and query time t, with a timeout of S
\* seconds configured _is_timeout_reached is true exactly when t >= T + S,
\* and with the timeout disabled it is false; a crawl that returned with
\* the timeout reason did so at a time >= start_time + S.
C13_TimeoutCheck ==
    /\ \A T \in 0..MaxTime : \A t \in 0..(2 * MaxTime) :
          IsTimeoutReached(config, T, t) =
              IF config.timeout.is_false
              THEN FALSE
              ELSE ~(t < T + config.timeout.seconds)
    /\ (pc = "Returned" /\ logged = TIMEOUT) =>
          (~config.timeout.is_false /\ now >= start_time + config.timeout.seconds)

\* crawl returned at the very second the timeout expired
C13_Witness ==
    /\ pc = "Returned"
    /\ logged = TIMEOUT
    /\ now = start_time + config.timeout.seconds

\* C14 (as claimed): with min_sleep <= max_sleep, every call that chose a
\* link draws a sleep d with min_sleep <= d < max_sleep and goes on to the
\* fetch; the draw never raises.
C14_Original ==
    config.min_sleep <= config.max_sleep =>
        /\ step # "SleepRaise"
        /\ (step = "Sleep" => pc = "FetchSub")

\* C15: the timeout is polled at one place only. A link is chosen only in
\* a step from the entry of _browse_from_links at which the timeout check
\* is false; the sleep and the fetch are reached only through that choice;
\* the timeout stops crawl only in a step from that entry, at which the
\* check is true; and after it crawl has returned and takes no step.
C15_TimeoutOnlyPolled ==
    [][/\ (pc' = "Sleep" /\ pc # "Sleep") =>
            /\ pc = "Explore"
            /\ step' = "PickLink"
            /\ ~IsTimeoutReached(config, start_time, now)
       /\ (pc' = "FetchSub" /\ pc # "FetchSub") => (pc = "Sleep" /\ step' = "Sleep")
       /\ logged' = TIMEOUT =>
            /\ pc = "Explore"
            /\ IsTimeoutReached(config, start_time, now)
            /\ step' = "TimedOut"
            /\ pc' = "Returned"
       /\ logged # TIMEOUT]_vars

\* the timeout expired while a fetch was pending, and the fetch is not cut
C15_Witness ==
    /\ pc = "FetchSub"
    /\ step = "Sleep"
    /\ IsTimeoutReached(config, start_time, now)

\* b occurs in u as a run of consecutive characters
OccursIn(b, u) ==
    \E first \in 1..(Len(u) + 1) : \E last \in 0..Len(u) : SubSeq(u, first, last) = b

\* C16: with the blacklist of any reachable state, _should_accept_url
\* accepts a result of _normalize_link exactly when it is a non-empty
\* string, the validator holds for it and no blacklist entry occurs in it.
C16_FilterAcceptsIff ==
    \A r \in NormResults :
        ShouldAcceptUrl(config, r) <=>
            /\ r # None
            /\ Len(r.str) > 0
            /\ urlValidator(r.str)
            /\ \A j \in 1..Len(blacklist) : ~OccursIn(blacklist[j], r.str)

\* a seed page was filtered while a valid URL was rejected only because a
\* shorter blacklist entry occurs in it
C16_Witness ==
    /\ step = "FetchRootOk"
    /\ \E s \in Strs :
          /\ urlValidator(s)
          /\ ~ShouldAcceptUrl(config, Str(s))
          /\ ~InList(s, blacklist)

\* number of entries of the list equal to x
RECURSIVE Count(_, _)
Count(list, x) ==
    IF list = <<>> THEN 0
    ELSE (IF Head(list) = x THEN 1 ELSE 0) + Count(Tail(list), x)

\* C17: on the links and blacklist of any reachable state, and for every
\* link: _remove_and_blacklist changes nothing when the link is not in the
\* list of links; otherwise it deletes exactly one entry of the list, an
\* occurrence of that link, and appends exactly that link to the blacklist.
C17_RemoveAndBlacklistEffect ==
    \A link \in Strs :
        LET rb == RemoveAndBlacklist(links, blacklist, link)
        IN  IF Count(links, link) = 0
            THEN rb.links = links /\ rb.blacklisted_urls = blacklist
            ELSE /\ Len(rb.links) = Len(links) - 1
                 /\ Count(rb.links, link) = Count(links, link) - 1
                 /\ \A x \in Strs \ {link} : Count(rb.links, x) = Count(links, x)
                 /\ IsListWithout(rb.links, links, link)
                 /\ rb.blacklisted_urls = blacklist \o <<link>>

\* the decode handler of crawl called it for a seed that was not in the
\* list, which still holds a link twice
C17_Witness ==
    /\ step = "CrawlExceptDecode"
    /\ ~InList(url, blacklist)
    /\ \E link \in Strs : Count(links, link) >= 2

\* C18: when the fetch of the seed raises a RequestException or a
\* MemoryError, nothing is changed but the control position: the handler
\* of crawl runs, leaves the blacklist, the list of links and the seeds
\* alone and goes back to the selection of a seed, with no call of
\* _browse_from_links in between; the failed seed is still one of the seeds.
C18_SeedFailureLeavesBlacklist ==
    [][/\ (pc = "FetchRoot" /\ pc' # "FetchRoot" /\ exc' \in {"transport", "memory"}) =>
            /\ pc' = "CrawlExcept"
            /\ config' = config
            /\ links' = links
       /\ (pc = "CrawlExcept" /\ pc' # "CrawlExcept" /\ exc \in {"transport", "memory"}) =>
            /\ step' = "Interrupt" \/ pc' = "RootSelect"
            /\ config' = config
            /\ links' = links
            /\ InList(url, config'.root_urls)]_vars

\* the first seed fetch of the run failed and a seed is selected again
C18_Witness ==
    /\ step = "CrawlExceptLogged"
    /\ pc = "RootSelect"
    /\ links = <<>>
    /\ random_link = NoUrl
    /\ depth = 0
    /\ InList(url, config.root_urls)

\* C19: _browse_from_links is entered from crawl only by the step in which
\* the seed fetch succeeded: that step sets the depth to 0 and the list of
\* links to the links extracted from the seed page (no entry of the list
\* left by the cycle before survives unless the page gives it again); every
\* other entry is a recursive call with the depth one higher, and a link is
\* chosen only inside such a call.
C19_CycleStartsFresh ==
    [][/\ (pc' = "Explore" /\ pc \notin {"Explore", "FetchSub", "BrowseExcept"}) =>
            /\ pc = "FetchRoot"
            /\ step' = "FetchRootOk"
            /\ depth' = 0
            /\ \E body \in Bodies : links' = ExtractUrls(config, body)
       /\ (pc' = "Explore" /\ pc \in {"FetchSub", "BrowseExcept"}) =>
            depth' = depth + 1
       /\ (pc = "FetchRoot" /\ pc' \notin {"FetchRoot", "Explore"}) =>
            pc' \in {"CrawlExcept", "Returned"}
       /\ (pc' = "Sleep" /\ pc # "Sleep") =>
            (pc = "Explore" /\ InList(random_link', links))]_vars

\* a cycle starts at depth 0 after the blacklist has grown during the run
C19_Witness ==
    /\ step = "FetchRootOk"
    /\ pc = "Explore"
    /\ depth = 0
    /\ Len(links) > 0
    /\ Len(blacklist) >= 2
    /\ ~InList(Last(blacklist), links)

\* C20: every call of _browse_from_links made by crawl ends: from the entry
\* of the walk the control always comes back to the seed selection or crawl
\* ends; and each fetch of a link that is followed by another call raises
\* the depth by one without passing max_depth, so a cycle has at most
\* max_depth fetches.
C20_CycleTerminates ==
    /\ [](pc = "Explore" => <>(pc \in {"RootSelect", "Returned", "Crashed"}))
    /\ [][(pc \in {"FetchSub", "BrowseExcept"} /\ pc' = "Explore") =>
             (depth' = depth + 1 /\ depth' <= config.max_depth)]_vars

\* a cycle made max_depth >= 2 fetches and then met the dead end
C20_Witness ==
    /\ step = "DeadEnd"
    /\ pc = "RootSelect"
    /\ depth = config.max_depth
    /\ depth >= 2
    /\ Len(links) > 0

====
